---- MODULE Spec2Model ----
(***************************************************************************)
(* A model of the document-utility front end: the ImageEditor component    *)
(* (crop rectangle drag handling, rotation, colour sliders, reset, save),  *)
(* the ToolWrapper / ImageUploader file handling around it, the AI-backed  *)
(* views with their ProcessingState, and the CSV exporter.                 *)
(*                                                                         *)
(* Strings that the code builds, splits or joins are records holding a     *)
(* sequence of tokens, so that concatenation, split(',') and join are      *)
(* computed.                                                               *)
(* Percentages and pixel coordinates are integers.                         *)
(***************************************************************************)
EXTENDS Integers, Sequences, FiniteSets, Bags, TLC

VARIABLES
    \* ImageEditor (src/vite.config.ts 40-51)
    brightness, contrast, saturation, rotation, isCropping, cropRect, dragRef,
    listeners,      \* pairs of window mousemove/mouseup listeners registered
    pressed,        \* the user holds the mouse button down since a press on the overlay
    decoding,       \* bag of img.onload closures of handleSave waiting for the decode
    \* ToolWrapper and the view that owns it (src/unnamed/part_000)
    tool,           \* which view is mounted
    file, isEditing, state,
    readers,        \* bag of FileReader loads started by processFile, not yet loaded
    requests,       \* bag of AI requests awaited by handleProcess
    service,        \* the AI service build: whether it finds an API key, its version
    saves,          \* how many saves have completed
    download,       \* the last blob handed to saveFile
    ev              \* the last event handled (and what a completed save drew)

editorVars == <<brightness, contrast, saturation, rotation, isCropping,
                cropRect, dragRef, listeners>>
wrapperVars == <<tool, file, isEditing, state, readers, requests, service>>
vars == <<brightness, contrast, saturation, rotation, isCropping, cropRect,
          dragRef, listeners, decoding, tool, file, isEditing, state, readers,
          requests, service, saves, download, ev, pressed>>

NULL == [null |-> TRUE]

----------------------------------------------------------------------------
(* Bounds of the model *)

\* rotation is explored up to this many quarter turns either way
MaxTurns == 5
\* and up to this many where the drags and the crop on save are explored
MaxDragTurns == 1
\* at most this many handleSave decodes wait at once
MaxDecoding == 1
\* at most this many saves are started in one run
MaxSaves == 1
\* at most this many FileReader loads wait at once
MaxReaders == 1
\* at most this many AI requests are awaited at once
MaxRequests == 2

\* pointer positions (client pixels) of the window mouse events
Pointers == {<<-150, -150>>, <<20, 30>>, <<200, 200>>}
\* values a slider is moved to (min 0, max 200)
SliderValues == {150}

----------------------------------------------------------------------------
(* Strings as token sequences *)

Lit(s) == [lit |-> s]
\* the one-token string s, the empty string, the string of some tokens
Str(s) == [str |-> <<Lit(s)>>]
EmptyStr == [str |-> <<>>]
Comma == Lit(",")

\* a + b on strings
Cat(a, b) == [str |-> a.str \o b.str]
Cat3(a, b, c) == Cat(a, Cat(b, c))
Cat4(a, b, c, d) == Cat(a, Cat3(b, c, d))

IsString(v) == DOMAIN v = {"str"}

\* String.prototype.startsWith for a one-token prefix
StartsWith(a, tok) == Len(a.str) >= 1 /\ a.str[1] = tok

\* the index of the first tok in the token sequence s from i on, or 0
RECURSIVE IndexOf(_, _, _)
IndexOf(s, tok, i) ==
    IF i > Len(s) THEN 0
    ELSE IF s[i] = tok THEN i
    ELSE IndexOf(s, tok, i + 1)

RECURSIVE SplitTokens(_, _)
SplitTokens(s, sep) ==
    LET i == IndexOf(s, sep, 1)
    IN IF i = 0 THEN <<[str |-> s]>>
       ELSE <<[str |-> SubSeq(s, 1, i - 1)]>> \o SplitTokens(SubSeq(s, i + 1, Len(s)), sep)

\* String.prototype.split(sep): the pieces of a between the separators
Split(a, sep) == SplitTokens(a.str, sep)

\* Array.prototype.join(sep) on an array of strings
RECURSIVE Join(_, _)
Join(parts, sep) ==
    IF Len(parts) = 0 THEN EmptyStr
    ELSE IF Len(parts) = 1 THEN parts[1]
    ELSE Cat3(parts[1], [str |-> <<sep>>], Join(Tail(parts), sep))

Max(a, b) == IF a >= b THEN a ELSE b
Min(a, b) == IF a <= b THEN a ELSE b

----------------------------------------------------------------------------
(* Images, File objects and data URLs *)

Image(f, w, h) == [format |-> f, width |-> w, height |-> h]

\* File objects the user can pick: a MIME type and the bytes
Png1000 == [type |-> Cat(Str("image/"), Str("png")), bytes |-> Image("png", 1000, 1000)]
WebpSmall == [type |-> Cat(Str("image/"), Str("webp")), bytes |-> Image("webp", 15, 7)]
CorruptPng == [type |-> Cat(Str("image/"), Str("png")), bytes |-> Image("corrupt", 0, 0)]
TextFile == [type |-> Cat(Str("text/"), Str("plain")), bytes |-> Image("corrupt", 0, 0)]
UserFiles == {Png1000, WebpSmall, CorruptPng, TextFile}

\* the base64 text of some bytes: one payload token
Base64(bytes) == [str |-> <<[b64 |-> bytes]>>]

\* the text ";base64,"
Base64Comma == [str |-> <<Lit(";base64"), Comma>>]
JpegType == Cat(Str("image/"), Str("jpeg"))

\* FileReader.readAsDataURL
ReadAsDataURL(f) ==
    Cat4(Str("data:"), f.type, Base64Comma, Base64(f.bytes))

\* what the browser decodes from an image source URL: the bytes decide, not
\* the declared type; NULL when the load fails
DecodeImage(src) ==
    LET parts == Split(src, Comma)
    IN IF Len(parts) < 2 \/ Len(parts[2].str) # 1 THEN NULL
       ELSE IF parts[2].str[1].b64.format = "corrupt" THEN NULL
       ELSE parts[2].str[1].b64

\* canvas.toDataURL('image/jpeg', 0.9): "data:," for a canvas without pixels
ToDataURL(width, height) ==
    IF width = 0 \/ height = 0 THEN [str |-> <<Lit("data:"), Comma>>]
    ELSE Cat4(Str("data:"), JpegType, Base64Comma, Base64(Image("jpeg", width, height)))

----------------------------------------------------------------------------
(* ImageUploader.processFile *)

UploadedFileWholeUrl(f) ==
    LET result == ReadAsDataURL(f)
    IN [file |-> f, previewUrl |-> result,
        base64 |-> Split(result, Comma)[1], mimeType |-> f.type]

\* the UploadedFile that reader.onload hands to onFileSelected
UploadedFile(f) ==
    LET result == ReadAsDataURL(f)
    IN [file |-> f, previewUrl |-> result,
        base64 |-> Split(result, Comma)[2], mimeType |-> f.type]

IdleState == [isLoading |-> FALSE, error |-> NULL, result |-> NULL]

----------------------------------------------------------------------------
(* ImageEditor: state and crop interaction *)

InitialCropRect == [x |-> 10, y |-> 10, w |-> 80, h |-> 80]

\* the useState / useRef initial values of a freshly mounted editor
EditorInit ==
    /\ brightness = 100
    /\ contrast = 100
    /\ saturation = 100
    /\ rotation = 0
    /\ isCropping = FALSE
    /\ cropRect = InitialCropRect
    /\ dragRef = NULL
    /\ listeners = 0

\* the same, as what an (un)mount leaves in the next state
EditorFresh ==
    /\ brightness' = 100
    /\ contrast' = 100
    /\ saturation' = 100
    /\ rotation' = 0
    /\ isCropping' = FALSE
    /\ cropRect' = InitialCropRect
    /\ dragRef' = NULL
    /\ listeners' = 0

\* ToolWrapper renders the editor instead of the card
EditorMounted == isEditing /\ file # NULL

\* containerRef.current.getBoundingClientRect(): the rendered image box
containerRect == [width |-> 50, height |-> 50]

\* where the pointer is pressed: on the rect body (its top-left corner) for
\* 'move', on the handle centred on the bottom-right corner for 'se'
PressPoint(rect, type) ==
    IF type = "move"
    THEN [clientX |-> (rect.x * containerRect.width) \div 100,
          clientY |-> (rect.y * containerRect.height) \div 100]
    ELSE [clientX |-> ((rect.x + rect.w) * containerRect.width) \div 100,
          clientY |-> ((rect.y + rect.h) * containerRect.height) \div 100]

NewRectNoClamp(d, clientX, clientY) ==
    LET deltaX == ((clientX - d.startX) * 100) \div containerRect.width
        deltaY == ((clientY - d.startY) * 100) \div containerRect.height
        startRect == d.startRect
    IN IF d.type = "move"
       THEN [startRect EXCEPT !.x = startRect.x + deltaX, !.y = startRect.y + deltaY]
       ELSE IF d.type = "se"
       THEN [startRect EXCEPT !.w = startRect.w + deltaX, !.h = startRect.h + deltaY]
       ELSE startRect

\* the rect handleMouseMove computes from the drag snapshot d and the pointer
NewRect(d, clientX, clientY) ==
    LET deltaX == ((clientX - d.startX) * 100) \div containerRect.width
        deltaY == ((clientY - d.startY) * 100) \div containerRect.height
        startRect == d.startRect
    IN IF d.type = "move"
       THEN [startRect EXCEPT
               !.x = Max(0, Min(100 - startRect.w, startRect.x + deltaX)),
               !.y = Max(0, Min(100 - startRect.h, startRect.y + deltaY))]
       ELSE IF d.type = "se"
       THEN [startRect EXCEPT
               !.w = Max(10, Min(100 - startRect.x, startRect.w + deltaX)),
               !.h = Max(10, Min(100 - startRect.y, startRect.h + deltaY))]
       ELSE startRect

EffectListenersNoCleanup(was, now) ==
    listeners + (IF now THEN 1 ELSE 0)

\* the useEffect on [isCropping]: the cleanup of the previous run removes its
\* pair, the new run adds one when crop mode is on
EffectListeners(was, now) ==
    listeners - (IF was THEN 1 ELSE 0) + (IF now THEN 1 ELSE 0)

CropOverlayAnyRotation == isCropping

\* the crop overlay (rect body and resize handle) is rendered
CropOverlay == isCropping /\ rotation = 0

\* the "crop before rotating, or reset rotation to 0" notice is rendered
RotationNotice == isCropping /\ rotation # 0

\* onMouseDown on the rect body or the resize handle of the crop overlay
HandleMouseDown(type) ==
    /\ EditorMounted
    /\ CropOverlay
    /\ LET p == PressPoint(cropRect, type)
       IN dragRef' = [startX |-> p.clientX, startY |-> p.clientY,
                      startRect |-> cropRect, type |-> type]
    /\ ev' = [op |-> "mousedown"]
    /\ UNCHANGED <<brightness, contrast, saturation, rotation, isCropping,
                   cropRect, listeners, decoding, saves, download>>
    /\ UNCHANGED wrapperVars
    /\ pressed' = TRUE

WindowMouseMoveCompounding(clientX, clientY) ==
    /\ EditorMounted
    /\ IF listeners > 0 /\ dragRef # NULL
       THEN cropRect' = NewRect([dragRef EXCEPT !.startRect = cropRect], clientX, clientY)
       ELSE cropRect' = cropRect
    /\ ev' = [op |-> "mousemove"]
    /\ UNCHANGED <<brightness, contrast, saturation, rotation, isCropping,
                   dragRef, listeners, decoding, saves, download>>
    /\ UNCHANGED wrapperVars
    /\ UNCHANGED pressed

\* a mousemove on the window: handleMouseMove runs when it is registered
WindowMouseMove(clientX, clientY) ==
    /\ EditorMounted
    /\ IF listeners > 0 /\ dragRef # NULL
       THEN cropRect' = NewRect(dragRef, clientX, clientY)
       ELSE cropRect' = cropRect
    /\ ev' = [op |-> "mousemove"]
    /\ UNCHANGED <<brightness, contrast, saturation, rotation, isCropping,
                   dragRef, listeners, decoding, saves, download>>
    /\ UNCHANGED wrapperVars
    /\ UNCHANGED pressed

WindowMouseUpKeepsDrag ==
    /\ EditorMounted
    /\ dragRef' = dragRef
    /\ ev' = [op |-> "mouseup"]
    /\ UNCHANGED <<brightness, contrast, saturation, rotation, isCropping,
                   cropRect, listeners, decoding, saves, download>>
    /\ UNCHANGED wrapperVars
    /\ pressed' = FALSE

\* a mouseup on the window: handleMouseUp runs when it is registered
WindowMouseUp ==
    /\ EditorMounted
    /\ IF listeners > 0 THEN dragRef' = NULL ELSE dragRef' = dragRef
    /\ ev' = [op |-> "mouseup"]
    /\ UNCHANGED <<brightness, contrast, saturation, rotation, isCropping,
                   cropRect, listeners, decoding, saves, download>>
    /\ UNCHANGED wrapperVars
    /\ pressed' = FALSE

\* the crop button: setIsCropping(!isCropping), then the effect re-runs
ToggleCrop ==
    /\ EditorMounted
    /\ isCropping' = ~isCropping
    /\ listeners' = EffectListeners(isCropping, ~isCropping)
    /\ ev' = [op |-> "toggle"]
    /\ UNCHANGED <<brightness, contrast, saturation, rotation, cropRect,
                   dragRef, decoding, saves, download>>
    /\ UNCHANGED wrapperVars
    /\ UNCHANGED pressed

RotateNormalized(by) ==
    /\ EditorMounted
    /\ rotation + by <= 90 * MaxTurns
    /\ rotation + by >= -(90 * MaxTurns)
    /\ rotation' = (rotation + by) % 360
    /\ ev' = [op |-> "rotate"]
    /\ UNCHANGED <<brightness, contrast, saturation, isCropping, cropRect,
                   dragRef, listeners, decoding, saves, download>>
    /\ UNCHANGED wrapperVars
    /\ UNCHANGED pressed

\* the rotate buttons: setRotation(r => r + by), by = 90 or -90
Rotate(by) ==
    /\ EditorMounted
    /\ rotation + by <= 90 * MaxTurns
    /\ rotation + by >= -(90 * MaxTurns)
    /\ rotation' = rotation + by
    /\ ev' = [op |-> "rotate"]
    /\ UNCHANGED <<brightness, contrast, saturation, isCropping, cropRect,
                   dragRef, listeners, decoding, saves, download>>
    /\ UNCHANGED wrapperVars
    /\ UNCHANGED pressed

\* a slider's onChange: which = 1 brightness, 2 contrast, 3 saturation
Slider(which, v) ==
    /\ EditorMounted
    /\ brightness' = (IF which = 1 THEN v ELSE brightness)
    /\ contrast' = (IF which = 2 THEN v ELSE contrast)
    /\ saturation' = (IF which = 3 THEN v ELSE saturation)
    /\ ev' = [op |-> "slider"]
    /\ UNCHANGED <<rotation, isCropping, cropRect, dragRef, listeners,
                   decoding, saves, download>>
    /\ UNCHANGED wrapperVars
    /\ UNCHANGED pressed

ResetKeepsRotation ==
    /\ EditorMounted
    /\ brightness' = 100
    /\ contrast' = 100
    /\ saturation' = 100
    /\ rotation' = rotation
    /\ isCropping' = FALSE
    /\ cropRect' = InitialCropRect
    /\ listeners' = EffectListeners(isCropping, FALSE)
    /\ ev' = [op |-> "reset"]
    /\ UNCHANGED <<dragRef, decoding, saves, download>>
    /\ UNCHANGED wrapperVars
    /\ UNCHANGED pressed

\* the reset button
Reset ==
    /\ EditorMounted
    /\ brightness' = 100
    /\ contrast' = 100
    /\ saturation' = 100
    /\ rotation' = 0
    /\ isCropping' = FALSE
    /\ cropRect' = InitialCropRect
    /\ listeners' = EffectListeners(isCropping, FALSE)
    /\ ev' = [op |-> "reset"]
    /\ UNCHANGED <<dragRef, decoding, saves, download>>
    /\ UNCHANGED wrapperVars
    /\ UNCHANGED pressed

----------------------------------------------------------------------------
(* ImageEditor.handleSave and ToolWrapper *)

\* bags of pending callbacks: one more x, one x fewer
Put(bag, x) == bag (+) SetToBag({x})
Take(bag, x) == bag (-) SetToBag({x})

\* the Save button: handleSave creates the Image and sets img.onload, which
\* closes over this render's state and props (onSave closes over file)
HandleSave ==
    /\ EditorMounted
    /\ BagCardinality(decoding) < MaxDecoding
    /\ saves + BagCardinality(decoding) < MaxSaves
    /\ decoding' = Put(decoding,
                       [imageSrc |-> file.previewUrl, rotation |-> rotation,
                        isCropping |-> isCropping, cropRect |-> cropRect,
                        file |-> file])
    /\ ev' = [op |-> "save"]
    /\ UNCHANGED editorVars
    /\ UNCHANGED wrapperVars
    /\ UNCHANGED <<saves, download>>
    /\ UNCHANGED pressed

\* the crop of step 3 with the source offset left at the origin
CropFromOrigin(c, newWidth, newHeight) ==
    [cropped |-> TRUE, sx100 |-> 0, sy100 |-> 0,
     sw100 |-> c.cropRect.w * newWidth, sh100 |-> c.cropRect.h * newHeight,
     dw100 |-> c.cropRect.w * newWidth, dh100 |-> c.cropRect.h * newHeight,
     width |-> (c.cropRect.w * newWidth) \div 100,
     height |-> (c.cropRect.h * newHeight) \div 100]

\* step 3 of img.onload on the newWidth x newHeight surface: the canvas is
\* resized to (cw, ch), which canvas.width / canvas.height keep as integers,
\* and drawImage(tempCanvas, cx, cy, cw, ch, 0, 0, cw, ch) copies the source
\* box at (cx, cy) of size (cw, ch) into a box of size (cw, ch). Offsets and
\* box sizes are in hundredths of a pixel (sx100 = 100 * cx, ...).
Crop(c, newWidth, newHeight) ==
    [cropped |-> TRUE,
     sx100 |-> c.cropRect.x * newWidth, sy100 |-> c.cropRect.y * newHeight,
     sw100 |-> c.cropRect.w * newWidth, sh100 |-> c.cropRect.h * newHeight,
     dw100 |-> c.cropRect.w * newWidth, dh100 |-> c.cropRect.h * newHeight,
     width |-> (c.cropRect.w * newWidth) \div 100,
     height |-> (c.cropRect.h * newHeight) \div 100]

DrawSurfaceUnrotated(c, img) ==
    LET newWidth == img.width
        newHeight == img.height
        size == [newWidth |-> newWidth, newHeight |-> newHeight]
    IN IF c.isCropping
       THEN size @@ Crop(c, newWidth, newHeight)
       ELSE size @@ [cropped |-> FALSE, sx100 |-> 0, sy100 |-> 0,
                     sw100 |-> 100 * newWidth, sh100 |-> 100 * newHeight,
                     dw100 |-> 100 * newWidth, dh100 |-> 100 * newHeight,
                     width |-> newWidth, height |-> newHeight]

\* steps 1-3 of img.onload: the surface drawn for closure c and image img.
\* For a multiple of 90 degrees |sin| and |cos| are 0 or 1 up to rounding that
\* the integer canvas.width / canvas.height drop.
DrawSurface(c, img) ==
    LET odd == ((c.rotation \div 90) % 2) = 1
        newWidth == IF odd THEN img.height ELSE img.width
        newHeight == IF odd THEN img.width ELSE img.height
        size == [newWidth |-> newWidth, newHeight |-> newHeight]
    IN IF c.isCropping
       THEN size @@ Crop(c, newWidth, newHeight)
       ELSE size @@ [cropped |-> FALSE, sx100 |-> 0, sy100 |-> 0,
                     sw100 |-> 100 * newWidth, sh100 |-> 100 * newHeight,
                     dw100 |-> 100 * newWidth, dh100 |-> 100 * newHeight,
                     width |-> newWidth, height |-> newHeight]

\* step 4: canvas.toDataURL('image/jpeg', 0.9).split(',')[1]
ResultBase64(surface) == Split(ToDataURL(surface.width, surface.height), Comma)[2]

EditSavedFileJpegUrl(f, newBase64) ==
    [f EXCEPT !.base64 = newBase64,
              !.previewUrl = Cat4(Str("data:"), JpegType, Base64Comma, newBase64)]

\* the file handleEditSave passes to setFile
EditSavedFile(f, newBase64) ==
    [f EXCEPT !.base64 = newBase64,
              !.previewUrl = Cat4(Str("data:"), f.mimeType, Base64Comma, newBase64)]

\* img.onload of the waiting save c: draw, export, onSave(resultBase64);
\* handleEditSave replaces the file (the view's setFile also resets its
\* ProcessingState) and closes the editor, which unmounts it
ImgOnload(c) ==
    /\ BagIn(c, decoding)
    /\ DecodeImage(c.imageSrc) # NULL
    /\ LET surface == DrawSurface(c, DecodeImage(c.imageSrc))
       IN /\ file' = EditSavedFile(c.file, ResultBase64(surface))
          /\ ev' = [op |-> "saved", surface |-> surface, closure |-> c]
    /\ state' = IdleState
    /\ isEditing' = FALSE
    /\ EditorFresh
    /\ decoding' = Take(decoding, c)
    /\ saves' = saves + 1
    /\ UNCHANGED <<tool, readers, requests, service, download>>
    /\ UNCHANGED pressed

\* the decode of the waiting save c fails: the image's error event finds no
\* handler (handleSave sets img.onload only, and has no try / catch), so
\* nothing runs
ImgError(c) ==
    /\ BagIn(c, decoding)
    /\ DecodeImage(c.imageSrc) = NULL
    /\ decoding' = Take(decoding, c)
    /\ ev' = [op |-> "decodeerror", onerror |-> NULL]
    /\ UNCHANGED editorVars
    /\ UNCHANGED wrapperVars
    /\ UNCHANGED <<saves, download>>
    /\ UNCHANGED pressed

\* the edit button of ToolWrapper (rendered when file && !isLoading)
OpenEditor ==
    /\ ~isEditing
    /\ file # NULL
    /\ ~state.isLoading
    /\ isEditing' = TRUE
    /\ EditorFresh
    /\ ev' = [op |-> "edit"]
    /\ UNCHANGED <<tool, file, state, readers, requests, service, decoding,
                   saves, download>>
    /\ UNCHANGED pressed

\* the editor's cancel button: onCancel = () => setIsEditing(false)
Cancel ==
    /\ EditorMounted
    /\ isEditing' = FALSE
    /\ EditorFresh
    /\ ev' = [op |-> "cancel"]
    /\ UNCHANGED <<tool, file, state, readers, requests, service, decoding,
                   saves, download>>
    /\ UNCHANGED pressed

\* ImageUploader's drop zone (rendered when no file is selected): processFile
ProcessFile(f) ==
    /\ ~EditorMounted
    /\ file = NULL
    /\ IF ~StartsWith(f.type, Lit("image/"))
       THEN readers' = readers
       ELSE /\ BagCardinality(readers) < MaxReaders
            /\ readers' = Put(readers, f)
    /\ ev' = [op |-> "pick"]
    /\ UNCHANGED editorVars
    /\ UNCHANGED <<tool, file, isEditing, state, requests, service, decoding,
                   saves, download>>
    /\ UNCHANGED pressed

\* reader.onload of the load of f: onFileSelected(uploaded file); the view's
\* setFile wrapper also resets its ProcessingState
ReaderOnload(f) ==
    /\ BagIn(f, readers)
    /\ file' = UploadedFile(f)
    /\ state' = IdleState
    /\ readers' = Take(readers, f)
    /\ ev' = [op |-> "selected"]
    /\ UNCHANGED editorVars
    /\ UNCHANGED <<tool, isEditing, requests, service, decoding, saves, download>>
    /\ UNCHANGED pressed

\* ImageUploader.clearFile (the X on the preview): onFileSelected(null)
ClearFile ==
    /\ ~EditorMounted
    /\ file # NULL
    /\ file' = NULL
    /\ state' = IdleState
    /\ ev' = [op |-> "clear"]
    /\ UNCHANGED editorVars
    /\ UNCHANGED <<tool, isEditing, readers, requests, service, decoding,
                   saves, download>>
    /\ UNCHANGED pressed

----------------------------------------------------------------------------
(* The AI service (src/unnamed/part_003, and the earlier version of it in  *)
(* src/unnamed/part_002) and the views' handleProcess                      *)

Tools == {"converter", "table_extractor", "id_scanner", "handwriting_ocr",
          "handwriting_remover"}
JsonTools == {"table_extractor", "id_scanner"}
TextTools == {"converter", "handwriting_ocr"}

\* JavaScript's a || b for strings: undefined and "" are falsy
OrElse(a, b) == IF a = NULL \/ a = EmptyStr THEN b ELSE a

\* values a JSON text can denote
TableAB == [headers |-> <<Str("A"), Str("B")>>, rows |-> <<<<Str("1"), Str("2")>>>>]
IdCard == [name |-> Str("N"), rawText |-> Str("R")]
EmptyObject == [object |-> "{}"]
\* the text of a JSON value is one token; any other text is malformed
JsonText(v) == [str |-> <<[json |-> v]>>]

\* JSON.parse: the value, or a SyntaxError
JsonParse(text) ==
    IF Len(text.str) = 1 /\ DOMAIN text.str[1] = {"json"}
    THEN [ok |-> TRUE, value |-> text.str[1].json]
    ELSE [ok |-> FALSE, err |-> [message |-> Str("Unexpected token")]]

\* what the AI capability can answer to a request of tool t
Responses(t) ==
    IF t \in TextTools
    THEN {[text |-> NULL], [text |-> EmptyStr], [text |-> Str("hello")]}
    ELSE IF t = "table_extractor"
    THEN {[text |-> NULL], [text |-> JsonText(TableAB)], [text |-> JsonText(EmptyObject)],
          [text |-> Str("not json")]}
    ELSE IF t = "id_scanner"
    THEN {[text |-> NULL], [text |-> JsonText(IdCard)], [text |-> JsonText(EmptyObject)],
          [text |-> Str("not json")]}
    ELSE {[parts |-> <<>>],
          [parts |-> <<[text |-> Str("sorry")]>>],
          [parts |-> <<[text |-> Str("done")], [inlineData |-> [data |-> Base64(Image("png", 15, 7))]]>>]}

\* what generateContent can reject with: an Error, an Error with an empty
\* message, a value without a message
Rejections == {[message |-> Str("fetch failed")], [message |-> EmptyStr], [status |-> "500"]}

ApiKeyError == [message |-> Str("API Key is missing.")]

\* the first part that carries inlineData.data, or 0
RECURSIVE FirstImagePart(_, _)
FirstImagePart(parts, i) ==
    IF i > Len(parts) THEN 0
    ELSE IF "inlineData" \in DOMAIN parts[i] /\ parts[i].inlineData.data # EmptyStr THEN i
    ELSE FirstImagePart(parts, i + 1)

\* the error a structured-extraction function throws when JSON.parse throws:
\* part_003 rethrows the SyntaxError, part_002 throws its own Error
ParseFailure(t, version, syntaxError) ==
    IF version = "part_003" THEN syntaxError
    ELSE IF t = "table_extractor" THEN [message |-> Str("Could not extract table data.")]
    ELSE [message |-> Str("Could not scan ID card.")]

\* what the service function of tool t returns or throws for response resp
ServiceResult(t, version, resp) ==
    IF t \in TextTools THEN [ok |-> TRUE, value |-> OrElse(resp.text, EmptyStr)]
    ELSE IF t \in JsonTools
    THEN LET parsed == JsonParse(OrElse(resp.text, JsonText(EmptyObject)))
         IN IF parsed.ok THEN parsed
            ELSE [ok |-> FALSE, err |-> ParseFailure(t, version, parsed.err)]
    ELSE LET i == FirstImagePart(resp.parts, 1)
         IN IF i = 0 THEN [ok |-> FALSE, err |-> [message |-> Str("No image generated.")]]
            ELSE [ok |-> TRUE, value |-> resp.parts[i].inlineData.data]

\* the fallback message of each view's catch
FallbackMessage(t) ==
    IF t = "converter" THEN Str("convert failed")
    ELSE IF t = "table_extractor" THEN Str("table extraction failed")
    ELSE IF t = "handwriting_remover" THEN Str("removal failed, retry")
    ELSE Str("scan failed")

ErrMessage(err) == IF "message" \in DOMAIN err THEN err.message ELSE NULL

FailedStateRawMessage(t, err) ==
    [isLoading |-> FALSE, error |-> ErrMessage(err), result |-> NULL]

\* the ProcessingState the catch of handleProcess sets
FailedState(t, err) ==
    [isLoading |-> FALSE, error |-> OrElse(ErrMessage(err), FallbackMessage(t)),
     result |-> NULL]

DoneStateKeepsLoading(t, value) ==
    [isLoading |-> TRUE, error |-> NULL, result |-> value]

\* the ProcessingState handleProcess sets after the await returned value
DoneState(t, value) ==
    [isLoading |-> FALSE, error |-> NULL,
     result |-> IF t = "handwriting_remover"
                THEN Cat4(Str("data:"), Cat(Str("image/"), Str("png")), Base64Comma, value)
                ELSE value]

\* the process button of ToolWrapper (rendered when file && !isLoading):
\* handleProcess up to its await. Without an API key getAiClient throws
\* inside the async service function, and the catch runs before any other
\* event.
HandleProcess ==
    /\ ~EditorMounted
    /\ file # NULL
    /\ ~state.isLoading
    /\ IF ~service.apiKey
       THEN /\ state' = FailedState(tool, ApiKeyError)
            /\ requests' = requests
            /\ ev' = [op |-> "failed"]
       ELSE /\ BagCardinality(requests) < MaxRequests
            /\ state' = [isLoading |-> TRUE, error |-> NULL, result |-> NULL]
            /\ requests' = Put(requests, [tool |-> tool, data |-> file.base64,
                                          mimeType |-> file.mimeType])
            /\ ev' = [op |-> "process"]
    /\ UNCHANGED editorVars
    /\ UNCHANGED <<tool, file, isEditing, readers, service, decoding, saves, download>>
    /\ UNCHANGED pressed

\* generateContent of request req resolves with resp: the rest of the
\* service function and of handleProcess
Resolve(req, resp) ==
    /\ BagIn(req, requests)
    /\ resp \in Responses(req.tool)
    /\ LET r == ServiceResult(req.tool, service.version, resp)
       IN IF r.ok
          THEN /\ state' = DoneState(req.tool, r.value)
               /\ ev' = [op |-> "done"]
          ELSE /\ state' = FailedState(req.tool, r.err)
               /\ ev' = [op |-> "failed"]
    /\ requests' = Take(requests, req)
    /\ UNCHANGED editorVars
    /\ UNCHANGED <<tool, file, isEditing, readers, service, decoding, saves, download>>
    /\ UNCHANGED pressed

\* generateContent of request req rejects with err
Reject(req, err) ==
    /\ BagIn(req, requests)
    /\ state' = FailedState(req.tool, err)
    /\ ev' = [op |-> "failed"]
    /\ requests' = Take(requests, req)
    /\ UNCHANGED editorVars
    /\ UNCHANGED <<tool, file, isEditing, readers, service, decoding, saves, download>>
    /\ UNCHANGED pressed

----------------------------------------------------------------------------
(* exportTableToCSV *)

NewLine == Lit("\n")

RECURSIVE MapJoin(_, _)
\* rows.map(row => row.join(sep))
MapJoin(rows, sep) ==
    IF Len(rows) = 0 THEN <<>>
    ELSE <<Join(rows[1], sep)>> \o MapJoin(Tail(rows), sep)

CsvContentTrailingNewline(data) ==
    Cat(Join(<<Join(data.headers, Comma)>> \o MapJoin(data.rows, Comma), NewLine),
        [str |-> <<NewLine>>])

\* csvContent of exportTableToCSV
CsvContent(data) ==
    Join(<<Join(data.headers, Comma)>> \o MapJoin(data.rows, Comma), NewLine)

\* the CSV download button of TableExtractorView (rendered when state.result)
ExportTableToCSV ==
    /\ tool = "table_extractor"
    /\ ~EditorMounted
    /\ state.result # NULL
    /\ download' = [name |-> Cat(Str("Table"), Str(".csv")),
                    type |-> Str("text/csv;charset=utf-8;"),
                    content |-> CsvContent(state.result)]
    /\ ev' = [op |-> "export"]
    /\ UNCHANGED editorVars
    /\ UNCHANGED wrapperVars
    /\ UNCHANGED <<decoding, saves>>
    /\ UNCHANGED pressed

----------------------------------------------------------------------------
(* The editor alone: mounted on one uploaded image, never closed *)

Init ==
    /\ EditorInit
    /\ decoding = EmptyBag
    /\ tool = "converter"
    /\ file = UploadedFile(Png1000)
    /\ isEditing = TRUE
    /\ state = IdleState
    /\ readers = EmptyBag
    /\ requests = EmptyBag
    /\ service = [apiKey |-> TRUE, version |-> "part_003"]
    /\ saves = 0
    /\ download = NULL
    /\ ev = [op |-> "mount"]
    /\ pressed = FALSE

Next ==
    \/ \E type \in {"move", "se"} : HandleMouseDown(type)
    \/ \E p \in Pointers : WindowMouseMove(p[1], p[2])
    \* the pointer comes back to where it was pressed
    \/ dragRef # NULL /\ WindowMouseMove(dragRef.startX, dragRef.startY)
    \/ WindowMouseUp
    \/ ToggleCrop
    \/ \E by \in {-90, 90} :
          /\ rotation + by <= 90 * MaxDragTurns
          /\ rotation + by >= -(90 * MaxDragTurns)
          /\ Rotate(by)
    \/ \E which \in 1..3, v \in SliderValues : Slider(which, v)
    \/ Reset

Spec == Init /\ [][Next]_vars

----------------------------------------------------------------------------
(* The editor inside ToolWrapper: upload, edit, save, cancel. The crop rect *)
(* keeps its initial value here; Spec explores the drags.                  *)

InitSave ==
    /\ EditorInit
    /\ decoding = EmptyBag
    /\ tool = "converter"
    /\ file = NULL
    /\ isEditing = FALSE
    /\ state = IdleState
    /\ readers = EmptyBag
    /\ requests = EmptyBag
    /\ service = [apiKey |-> TRUE, version |-> "part_003"]
    /\ saves = 0
    /\ download = NULL
    /\ ev = [op |-> "mount"]
    /\ pressed = FALSE

NextSave ==
    \/ \E f \in UserFiles : ProcessFile(f)
    \/ \E f \in BagToSet(readers) : ReaderOnload(f)
    \/ ClearFile
    \/ OpenEditor
    \/ Cancel
    \/ HandleSave
    \/ \E c \in BagToSet(decoding) : ImgOnload(c)
    \/ \E c \in BagToSet(decoding) : ImgError(c)
    \/ ToggleCrop
    \/ \E by \in {-90, 90} :
          /\ rotation + by <= 90 * MaxDragTurns
          /\ rotation + by >= -(90 * MaxDragTurns)
          /\ Rotate(by)
    \/ Reset

SpecSave == InitSave /\ [][NextSave]_vars

----------------------------------------------------------------------------
(* The editor on an uploaded image: drags, toggles, resets and quarter     *)
(* turns, then a save                                                       *)

InitCrop ==
    /\ EditorInit
    /\ decoding = EmptyBag
    /\ tool = "converter"
    /\ file \in {UploadedFile(Png1000), UploadedFile(WebpSmall)}
    /\ isEditing = TRUE
    /\ state = IdleState
    /\ readers = EmptyBag
    /\ requests = EmptyBag
    /\ service = [apiKey |-> TRUE, version |-> "part_003"]
    /\ saves = 0
    /\ download = NULL
    /\ ev = [op |-> "edit"]
    /\ pressed = FALSE

\* what the user does between the press of Save and the load of its image
\* does not reach the closure of that save; SpecSave explores it
NextCrop ==
    \/ /\ decoding = EmptyBag
       /\ \/ \E type \in {"move", "se"} : HandleMouseDown(type)
          \/ \E p \in Pointers : WindowMouseMove(p[1], p[2])
          \/ WindowMouseUp
          \/ ToggleCrop
          \/ \E by \in {-90, 90} :
                /\ rotation + by <= 90 * MaxDragTurns
                /\ rotation + by >= -(90 * MaxDragTurns)
                /\ Rotate(by)
          \/ Reset
          \/ HandleSave
    \/ \E c \in BagToSet(decoding) : ImgOnload(c)

SpecCrop == InitCrop /\ [][NextCrop]_vars

----------------------------------------------------------------------------
(* The editor inside ToolWrapper on an uploaded image: many quarter turns, *)
(* reset, save, cancel and reopening                                       *)

InitTurn ==
    /\ EditorInit
    /\ decoding = EmptyBag
    /\ tool = "converter"
    /\ file \in {UploadedFile(Png1000), UploadedFile(WebpSmall)}
    /\ isEditing = FALSE
    /\ state = IdleState
    /\ readers = EmptyBag
    /\ requests = EmptyBag
    /\ service = [apiKey |-> TRUE, version |-> "part_003"]
    /\ saves = 0
    /\ download = NULL
    /\ ev = [op |-> "selected"]
    /\ pressed = FALSE

NextTurn ==
    \/ OpenEditor
    \/ Cancel
    \/ \E by \in {-90, 90} : Rotate(by)
    \/ Reset
    \/ HandleSave
    \/ \E c \in BagToSet(decoding) : ImgOnload(c)

SpecTurn == InitTurn /\ [][NextTurn]_vars

----------------------------------------------------------------------------
(* One AI-backed view: upload, process, responses, clear, edit with the    *)
(* editor's settings untouched                                             *)

InitView ==
    /\ EditorInit
    /\ decoding = EmptyBag
    /\ tool \in Tools
    /\ file = NULL
    /\ isEditing = FALSE
    /\ state = IdleState
    /\ readers = EmptyBag
    /\ requests = EmptyBag
    \* the two versions of the service differ in the structured-extraction
    \* functions only
    /\ service \in {sv \in [apiKey : BOOLEAN, version : {"part_002", "part_003"}] :
                       tool \in JsonTools \/ sv.version = "part_003"}
    /\ saves = 0
    /\ download = NULL
    /\ ev = [op |-> "mount"]
    /\ pressed = FALSE

NextView ==
    \* files that fail to decode are explored under SpecSave
    \/ \E f \in UserFiles \ {CorruptPng} : ProcessFile(f)
    \/ \E f \in BagToSet(readers) : ReaderOnload(f)
    \/ ClearFile
    \/ HandleProcess
    \/ \E req \in BagToSet(requests) : \E resp \in Responses(tool) : Resolve(req, resp)
    \/ \E req \in BagToSet(requests) : \E err \in Rejections : Reject(req, err)
    \/ OpenEditor
    \/ Cancel
    \/ HandleSave
    \/ \E c \in BagToSet(decoding) : ImgOnload(c)

SpecView == InitView /\ [][NextView]_vars

----------------------------------------------------------------------------
(* The CSV exporter on the tables a TableExtractorView can hold *)

\* longest header list and longest row, and most rows, of the tables explored
MaxCells == 2
MaxRows == 1

\* header texts: plain ones and one with a comma
HeaderTexts == {Str("A"), Str("B"), [str |-> <<Lit("x"), Comma, Lit("y")>>]}
\* cell texts: plain, with a quote and a comma, with a newline
CellTexts == {Str("1"), Str("2"), [str |-> <<Lit("\""), Comma, Lit("q")>>],
              [str |-> <<Lit("u"), NewLine>>]}

SeqsUpTo(S, n) == UNION {[1..k -> S] : k \in 0..n}

TableDatas ==
    [headers : SeqsUpTo(HeaderTexts, MaxCells),
     rows : SeqsUpTo(SeqsUpTo(CellTexts, MaxCells), MaxRows)]

InitCSV ==
    /\ EditorInit
    /\ decoding = EmptyBag
    /\ tool = "table_extractor"
    /\ file = UploadedFile(Png1000)
    /\ isEditing = FALSE
    /\ state \in [isLoading : {FALSE}, error : {NULL}, result : TableDatas]
    /\ readers = EmptyBag
    /\ requests = EmptyBag
    /\ service = [apiKey |-> TRUE, version |-> "part_003"]
    /\ saves = 0
    /\ download = NULL
    /\ ev = [op |-> "done"]
    /\ pressed = FALSE

NextCSV == ExportTableToCSV

SpecCSV == InitCSV /\ [][NextCSV]_vars

----------------------------------------------------------------------------
(* Properties of the crop interaction (under Spec) *)

\* C1: in every reachable state of the editor the crop rect satisfies
\* 0 <= x, 0 <= y, x + w <= 100, y + h <= 100, w >= 10 and h >= 10.
C1_CropRectInBounds ==
    /\ cropRect.x >= 0
    /\ cropRect.y >= 0
    /\ cropRect.x + cropRect.w <= 100
    /\ cropRect.y + cropRect.h <= 100
    /\ cropRect.w >= 10
    /\ cropRect.h >= 10

\* a drag has moved the rect away from its initial place into the bottom-right corner
C1_Witness ==
    /\ ev.op = "mousemove"
    /\ dragRef # NULL
    /\ cropRect # InitialCropRect
    /\ cropRect.x + cropRect.w = 100
    /\ cropRect.y + cropRect.h = 100

\* the pointer movement of a mousemove at clientX / clientY in percent of the
\* container, for the drag snapshot d
DeltaX(d, clientX) == ((clientX - d.startX) * 100) \div containerRect.width
DeltaY(d, clientY) == ((clientY - d.startY) * 100) \div containerRect.height
Clamp(lo, hi, v) == Max(lo, Min(hi, v))

\* a mousemove that handleMouseMove applies to a drag of the given type
DragMove(p, type) ==
    /\ WindowMouseMove(p[1], p[2])
    /\ listeners > 0
    /\ dragRef # NULL
    /\ dragRef.type = type

\* C2: a pointer move during a 'move' drag sets x' = clamp(0, 100 - w, x0 + dx)
\* and y' = clamp(0, 100 - h, y0 + dy) and keeps the snapshot's w and h, so
\* for every delta the result has x >= 0, y >= 0, x + w <= 100, y + h <= 100.
C2_MoveClamped ==
    [][\A p \in Pointers :
         DragMove(p, "move") =>
           LET r == dragRef.startRect
           IN /\ cropRect'.x = Clamp(0, 100 - r.w, r.x + DeltaX(dragRef, p[1]))
              /\ cropRect'.y = Clamp(0, 100 - r.h, r.y + DeltaY(dragRef, p[2]))
              /\ cropRect'.w = r.w
              /\ cropRect'.h = r.h
              /\ cropRect'.x >= 0
              /\ cropRect'.y >= 0
              /\ cropRect'.x + cropRect'.w <= 100
              /\ cropRect'.y + cropRect'.h <= 100]_vars

\* a 'move' drag was pulled far past the top-left corner and stopped at it
C2_Witness ==
    /\ ev.op = "mousemove"
    /\ listeners > 0
    /\ dragRef # NULL
    /\ dragRef.type = "move"
    /\ dragRef.startRect.x > 0
    /\ cropRect.x = 0
    /\ cropRect.y = 0

\* C3: a pointer move during a 'se' drag sets w' = clamp(10, 100 - x0, w0 + dx)
\* and h' = clamp(10, 100 - y0, h0 + dy) and keeps the snapshot's x and y, so
\* for every delta the result has w >= 10 and h >= 10.
C3_ResizeClamped ==
    [][\A p \in Pointers :
         DragMove(p, "se") =>
           LET r == dragRef.startRect
           IN /\ cropRect'.w = Clamp(10, 100 - r.x, r.w + DeltaX(dragRef, p[1]))
              /\ cropRect'.h = Clamp(10, 100 - r.y, r.h + DeltaY(dragRef, p[2]))
              /\ cropRect'.x = r.x
              /\ cropRect'.y = r.y
              /\ cropRect'.w >= 10
              /\ cropRect'.h >= 10]_vars

\* a 'se' drag was pulled far to the top-left and stopped at the minimum size
C3_Witness ==
    /\ ev.op = "mousemove"
    /\ listeners > 0
    /\ dragRef # NULL
    /\ dragRef.type = "se"
    /\ dragRef.startRect.w > 10
    /\ cropRect.w = 10
    /\ cropRect.h = 10

\* C4: after a pointer release anywhere in the window while a drag is active
\* the drag is over (the drag snapshot is gone), so that no later pointer
\* movement changes the crop rect until a new pointer press.
C4_ReleaseEndsDrag == ev.op = "mouseup" => dragRef = NULL

\* C5: reset yields exactly brightness = contrast = saturation = 100,
\* rotation = 0, crop mode off and crop rect {10, 10, 80, 80}.
C5_ResetRestores ==
    ev.op = "reset" =>
      /\ brightness = 100
      /\ contrast = 100
      /\ saturation = 100
      /\ rotation = 0
      /\ isCropping = FALSE
      /\ cropRect = InitialCropRect

\* reset was pressed during a drag of a rect that had been moved before
C5_Witness ==
    /\ ev.op = "reset"
    /\ dragRef # NULL
    /\ dragRef.startRect # InitialCropRect

----------------------------------------------------------------------------
(* Properties of the AI-backed views (under SpecView) *)

\* C6: when the AI call of a view fails, the view ends in isLoading = false,
\* error = a non-empty message, result = null, with the file still selected.
C6_FailureLeavesRetryable ==
    ev.op = "failed" =>
      /\ state.isLoading = FALSE
      /\ state.error # NULL
      /\ state.error # EmptyStr
      /\ state.result = NULL
      /\ file # NULL

\* C7: at most one AI request of the view is in flight at any time.
C7_AtMostOneRequest == BagCardinality(requests) <= 1

----------------------------------------------------------------------------
(* Properties of the save pipeline (under SpecSave) *)

\* the base64 text the encoder gives for a canvas of the given size
Payload(width, height) ==
    IF width = 0 \/ height = 0 THEN EmptyStr
    ELSE Base64(Image("jpeg", width, height))

\* C8: when an editor save completes the file is replaced by one whose base64
\* is the new payload without a data: prefix, whose mimeType is the input
\* file's and whose previewUrl is data:<mimeType>;base64,<payload>, and the
\* editor is closed; previewUrl = "data:" + mimeType + ";base64," + base64
\* holds for the file after any uploads and saves.
C8_EditorOutputContract ==
    /\ file # NULL =>
         file.previewUrl = Cat4(Str("data:"), file.mimeType, Base64Comma, file.base64)
    /\ ev.op = "saved" =>
         /\ file # NULL
         /\ file.base64 = Payload(ev.surface.width, ev.surface.height)
         /\ IndexOf(file.base64.str, Lit("data:"), 1) = 0
         /\ IndexOf(file.base64.str, Comma, 1) = 0
         /\ file.mimeType = ev.closure.file.mimeType
         /\ file.file = ev.closure.file.file
         /\ ~isEditing

\* a save of a PNG upload has completed
C8_Witness ==
    /\ ev.op = "saved"
    /\ file # NULL
    /\ file.mimeType = Cat(Str("image/"), Str("png"))
    /\ file.base64 = Base64(Image("jpeg", 1000, 1000))

\* C9 as amended: with crop mode on, save produces a canvas of the integer
\* parts of (w/100 * W) by (h/100 * H) pixels, drawn unscaled from the box of
\* size (w/100 * W, h/100 * H) at offset (x/100 * W, y/100 * H) of the W x H
\* transformed surface; rect {10, 10, 80, 80} on 1000 x 1000 gives 800 x 800
\* from (100, 100).
C9_CropTruncated ==
    (ev.op = "saved" /\ ev.closure.isCropping) =>
      LET sf == ev.surface
          r == ev.closure.cropRect
          W == sf.newWidth
          H == sf.newHeight
      IN /\ sf.cropped
         /\ sf.width = (r.w * W) \div 100
         /\ sf.height = (r.h * H) \div 100
         /\ sf.sx100 = r.x * W
         /\ sf.sy100 = r.y * H
         /\ sf.sw100 = r.w * W /\ sf.dw100 = sf.sw100
         /\ sf.sh100 = r.h * H /\ sf.dh100 = sf.sh100
         /\ file.base64 = Payload(sf.width, sf.height)
         /\ (r = InitialCropRect /\ W = 1000 /\ H = 1000) =>
              /\ sf.width = 800 /\ sf.height = 800
              /\ sf.sx100 = 100 * 100 /\ sf.sy100 = 100 * 100

\* the initial rect was cropped out of the 1000 x 1000 upload
C9_Witness ==
    /\ ev.op = "saved"
    /\ ev.closure.isCropping
    /\ ev.surface.newWidth = 1000
    /\ ev.surface.width = 800
    /\ ev.surface.sx100 = 10000

\* C9 as stated: with crop mode on, save produces a surface of exactly
\* (w/100 * W) by (h/100 * H) pixels.
C9_CropExact ==
    (ev.op = "saved" /\ ev.closure.isCropping) =>
      /\ 100 * ev.surface.width = ev.closure.cropRect.w * ev.surface.newWidth
      /\ 100 * ev.surface.height = ev.closure.cropRect.h * ev.surface.newHeight

----------------------------------------------------------------------------
(* Properties of the CSV export (under SpecCSV) *)

\* how many of the tokens of a token sequence are tok
RECURSIVE Count(_, _)
Count(s, tok) ==
    IF Len(s) = 0 THEN 0
    ELSE (IF s[1] = tok THEN 1 ELSE 0) + Count(Tail(s), tok)

\* the tokens, commas and newlines in the cells of a row, and the separators
\* that joining the row adds
RECURSIVE RowLen(_)
RowLen(row) == IF Len(row) = 0 THEN 0 ELSE Len(row[1].str) + RowLen(Tail(row))
RECURSIVE RowCount(_, _)
RowCount(row, tok) ==
    IF Len(row) = 0 THEN 0 ELSE Count(row[1].str, tok) + RowCount(Tail(row), tok)
RowSeps(row) == IF Len(row) = 0 THEN 0 ELSE Len(row) - 1

\* the same sums over all the rows of a table
RECURSIVE TableLen(_)
TableLen(rows) == IF Len(rows) = 0 THEN 0 ELSE RowLen(rows[1]) + TableLen(Tail(rows))
RECURSIVE TableCount(_, _)
TableCount(rows, tok) ==
    IF Len(rows) = 0 THEN 0 ELSE RowCount(rows[1], tok) + TableCount(Tail(rows), tok)
RECURSIVE TableSeps(_)
TableSeps(rows) == IF Len(rows) = 0 THEN 0 ELSE RowSeps(rows[1]) + TableSeps(Tail(rows))

\* C10: CSV export gives the headers joined by ',' followed by each row joined
\* by ',', separated by '\n' with no trailing newline and the cells verbatim;
\* headers [A, B] with rows [[1, 2]] give exactly 'A,B\n1,2', and there are
\* 1 + (number of rows) lines when no cell contains a newline.
C10_CsvExport ==
    ev.op = "export" =>
      LET d == state.result
          all == <<d.headers>> \o d.rows
          csv == download.content
          lines == Split(csv, NewLine)
      IN \* every token of every cell is emitted, and nothing but separators
         /\ Len(csv.str) = TableLen(all) + TableSeps(all) + Len(d.rows)
         /\ Count(csv.str, Comma) = TableCount(all, Comma) + TableSeps(all)
         \* one newline per row and none after the last line
         /\ Count(csv.str, NewLine) = TableCount(all, NewLine) + Len(d.rows)
         /\ TableCount(all, NewLine) = 0 =>
              /\ Len(lines) = 1 + Len(d.rows)
              /\ \A i \in 1..Len(all) : lines[i] = Join(all[i], Comma)
         /\ (d.headers = <<Str("A"), Str("B")>> /\ d.rows = <<<<Str("1"), Str("2")>>>>) =>
              csv = [str |-> <<Lit("A"), Comma, Lit("B"), NewLine, Lit("1"), Comma, Lit("2")>>]

\* the table of the example was exported
C10_Witness ==
    /\ ev.op = "export"
    /\ state.result.headers = <<Str("A"), Str("B")>>
    /\ state.result.rows = <<<<Str("1"), Str("2")>>>>
    /\ Len(download.content.str) = 7

----------------------------------------------------------------------------
(* Availability of the crop interaction (under Spec) *)

\* C11: the crop overlay is present exactly when crop mode is on and
\* rotation = 0, the notice is shown instead when crop mode is on and
\* rotation # 0, and a drag begins (the drag snapshot is taken) only by a press
\* on the overlay, so never while rotation # 0.
C11_CropOnlyAtZeroRotation ==
    [][/\ CropOverlay' <=> (isCropping' /\ rotation' = 0)
       /\ RotationNotice' <=> (isCropping' /\ rotation' # 0)
       /\ ~(CropOverlay' /\ RotationNotice')
       /\ (dragRef' # NULL /\ dragRef' # dragRef) =>
            /\ ev'.op = "mousedown"
            /\ isCropping /\ rotation = 0
            /\ rotation' = 0]_vars

\* crop mode is on at a quarter turn: the notice is up and no drag has begun
C11_Witness ==
    /\ ev.op = "rotate"
    /\ isCropping
    /\ rotation # 0
    /\ RotationNotice
    /\ ~CropOverlay
    /\ dragRef = NULL

----------------------------------------------------------------------------
(* Failures of save and of the AI service *)

\* C12: when the source image fails to decode on save, the failure is
\* reported (an error handler runs or the view shows an error), onSave is not
\* called (no save completes) and the caller's file is unchanged.
C12_DecodeErrorSignalled ==
    [][ev'.op = "decodeerror" =>
         /\ file' = file
         /\ saves' = saves
         /\ isEditing' = isEditing
         /\ (ev'.onerror # NULL \/ state'.error # NULL)]_vars

\* C13: on the structured-extraction paths a failure to parse the response
\* text as JSON is re-raised as a domain-level error with its own message:
\* the message of the raw parse exception is never the error of the view.
C13_ParseErrorWrapped == state.error # JsonParse(Str("not json")).err.message

----------------------------------------------------------------------------
(* The editor's window listeners and save (under SpecSave) *)

\* C14: the window mousemove / mouseup listeners are registered exactly while
\* the editor is mounted with crop mode on: none when crop mode is off, none
\* after the editor unmounts, and never more than one pair.
C14_ListenersWhileCropping ==
    /\ listeners = (IF EditorMounted /\ isCropping THEN 1 ELSE 0)
    /\ ~isCropping => listeners = 0
    /\ ~EditorMounted => listeners = 0
    /\ listeners <= 1

\* a save taken with crop mode on has completed and unmounted the editor
C14_Witness ==
    /\ ev.op = "saved"
    /\ ev.closure.isCropping
    /\ ~EditorMounted
    /\ listeners = 0

----------------------------------------------------------------------------
(* Drags, frame conditions and stale responses *)

\* the rect that the drag snapshot d and the pointer position p determine
RectAt(d, p) ==
    LET r == d.startRect
    IN IF d.type = "move"
       THEN [x |-> Clamp(0, 100 - r.w, r.x + DeltaX(d, p[1])),
             y |-> Clamp(0, 100 - r.h, r.y + DeltaY(d, p[2])),
             w |-> r.w, h |-> r.h]
       ELSE [x |-> r.x, y |-> r.y,
             w |-> Clamp(10, 100 - r.x, r.w + DeltaX(d, p[1])),
             h |-> Clamp(10, 100 - r.y, r.h + DeltaY(d, p[2]))]

\* C15: during a drag the crop rect after a pointer move is a function of the
\* snapshot taken at the press and of the pointer's current offset from the
\* press point only (not of the rect the earlier moves left), the snapshot is
\* kept, and a move back to the press position restores the snapshot rect.
C15_DragFromSnapshot ==
    [][(dragRef # NULL /\ listeners > 0) =>
         \A p \in Pointers \cup {<<dragRef.startX, dragRef.startY>>} :
            WindowMouseMove(p[1], p[2]) =>
              /\ cropRect' = RectAt(dragRef, p)
              /\ dragRef' = dragRef
              /\ (p = <<dragRef.startX, dragRef.startY>>) => cropRect' = dragRef.startRect]_vars

\* a 'move' drag of a shrunk rect has put it at snapshot + offset, unclamped
C15_Witness ==
    /\ ev.op = "mousemove"
    /\ listeners > 0
    /\ dragRef # NULL
    /\ dragRef.type = "move"
    /\ dragRef.startRect.w = 10
    /\ cropRect.x = dragRef.startRect.x + 30
    /\ cropRect.y = dragRef.startRect.y + 50

\* C16: save applies the crop stage only when rotation is 0: no completed
\* save has cropped a surface that was rotated by a non-zero angle.
C16_CropOnlyUnrotated ==
    (ev.op = "saved" /\ ev.surface.cropped) => ev.closure.rotation = 0

\* C17: the crop rect is changed only by a pointer move during an active drag
\* (the button is still held since the press on the overlay) and by reset:
\* toggling crop mode, rotating, the sliders, a press, a release and pointer
\* moves with no active drag leave it unchanged.
C17_CropRectFrame ==
    [][cropRect' # cropRect =>
         \/ ev'.op = "reset"
         \/ ev'.op = "mousemove" /\ pressed /\ dragRef # NULL]_vars

----------------------------------------------------------------------------
(* Rotation (under SpecTurn) *)

\* |cos| and |sin| of a multiple of 90 degrees
AbsCos(deg) == IF (deg \div 90) % 4 \in {0, 2} THEN 1 ELSE 0
AbsSin(deg) == IF (deg \div 90) % 4 \in {1, 3} THEN 1 ELSE 0

\* C18: for every rotation that is a multiple of 90 degrees, of either sign
\* and beyond +/-360, the transformed surface of a width x height source is
\* width x height when rotation / 90 is even and height x width when it is
\* odd, which is newWidth = width * |cos| + height * |sin| and
\* newHeight = width * |sin| + height * |cos|.
C18_RotatedBounds ==
    ev.op = "saved" =>
      LET img == DecodeImage(ev.closure.imageSrc)
          deg == ev.closure.rotation
          sf == ev.surface
      IN /\ deg % 90 = 0
         /\ sf.newWidth = img.width * AbsCos(deg) + img.height * AbsSin(deg)
         /\ sf.newHeight = img.width * AbsSin(deg) + img.height * AbsCos(deg)
         /\ (deg \div 90) % 2 = 0 => (sf.newWidth = img.width /\ sf.newHeight = img.height)
         /\ (deg \div 90) % 2 = 1 => (sf.newWidth = img.height /\ sf.newHeight = img.width)
         /\ ~sf.cropped => (sf.width = sf.newWidth /\ sf.height = sf.newHeight)

\* the 15 x 7 image was saved after five quarter turns counter-clockwise
C18_Witness ==
    /\ ev.op = "saved"
    /\ ev.closure.rotation = -450
    /\ ~ev.surface.cropped
    /\ ev.surface.width = 7
    /\ ev.surface.height = 15

\* C19: rotation changes only by +90 or -90 per rotate action and to 0 on
\* reset (a newly mounted editor starts at 0 as well); it is never normalized,
\* so it is always a multiple of 90 and k clockwise rotations in a row from 0
\* give 90 * k, also past 360.
C19_RotationAccumulates ==
    [][/\ rotation' % 90 = 0
       /\ ev'.op = "rotate" => (rotation' = rotation + 90 \/ rotation' = rotation - 90)
       /\ ev'.op = "reset" => rotation' = 0
       /\ rotation' # rotation =>
            \/ ev'.op = "rotate"
            \/ rotation' = 0 /\ ev'.op \in {"reset", "edit", "cancel", "saved"}]_vars

\* five clockwise rotations in a row from 0
C19_Witness ==
    /\ ev.op = "rotate"
    /\ rotation = 450

\* C20: the result (or error) a view displays belongs to the currently
\* selected file: a response to a request issued for a file that has since
\* been cleared or replaced never becomes the state of the view for the new
\* file.
C20_ResponseForCurrentFile ==
    [][\A req \in BagToSet(requests) :
         ((\E resp \in Responses(req.tool) : Resolve(req, resp))
            \/ (\E err \in Rejections : Reject(req, err)))
         => (file # NULL => (req.data = file.base64 /\ req.mimeType = file.mimeType))]_vars

----------------------------------------------------------------------------
(* Cancelling, stale drags and the shape of results *)

\* C21: after the user cancels the editor the caller's file is the one from
\* before the editor was opened, also when save had been pressed in that
\* session and its decode was still pending: while the editor is closed the
\* file changes only by the user's selecting or clearing a file.
C21_CancelKeepsFile ==
    [][(~isEditing /\ file' # file) => ev'.op \in {"selected", "clear"}]_vars

\* C22: whenever crop mode is off no drag is active (the drag snapshot is
\* null): turning crop mode off or resetting during a drag discards the drag.
C22_NoDragWhenCropOff == ~isCropping => dragRef = NULL

\* C23: whenever TableExtractorView holds a non-null result, the result has
\* a headers array and a rows array, also when the AI returned an empty
\* response text or JSON without those fields.
C23_TableResultShape ==
    (tool = "table_extractor" /\ state.result # NULL) =>
      {"headers", "rows"} \subseteq DOMAIN state.result

\* C24: in every view and every reachable state the ProcessingState never has
\* both error and result non-null, isLoading implies error = null and
\* result = null, and selecting, clearing or edit-saving a file resets it to
\* {isLoading: false, error: null, result: null}.
C24_ProcessingStateShape ==
    /\ ~(state.error # NULL /\ state.result # NULL)
    /\ state.isLoading => (state.error = NULL /\ state.result = NULL)
    /\ ev.op \in {"selected", "clear", "saved"} =>
         state = [isLoading |-> FALSE, error |-> NULL, result |-> NULL]

\* a result is displayed while another request of the view is still awaited
C24_Witness ==
    /\ ev.op = "done"
    /\ state.result # NULL
    /\ state.error = NULL
    /\ ~state.isLoading
    /\ BagCardinality(requests) >= 1

----------------------------------------------------------------------------
(* The crop region of a save after drags (under SpecCrop) *)

\* C25: on every save with crop mode on, for every crop rect that drags,
\* resets and toggles can reach, the crop region lies inside the transformed
\* surface (0 <= cx, 0 <= cy, cx + cw <= newWidth, cy + ch <= newHeight) and
\* has cw >= 10% of newWidth and ch >= 10% of newHeight.
C25_CropRegionInSurface ==
    (ev.op = "saved" /\ ev.closure.isCropping) =>
      LET sf == ev.surface
      IN /\ sf.cropped
         /\ sf.sx100 >= 0
         /\ sf.sy100 >= 0
         /\ sf.sx100 + sf.sw100 <= 100 * sf.newWidth
         /\ sf.sy100 + sf.sh100 <= 100 * sf.newHeight
         /\ 10 * sf.sw100 >= 100 * sf.newWidth
         /\ 10 * sf.sh100 >= 100 * sf.newHeight

\* the rect was shrunk to the minimum, dragged into the bottom-right corner
\* and saved
C25_Witness ==
    /\ ev.op = "saved"
    /\ ev.closure.isCropping
    /\ ev.closure.cropRect = [x |-> 90, y |-> 90, w |-> 10, h |-> 10]
    /\ ev.surface.sx100 + ev.surface.sw100 = 100 * ev.surface.newWidth

----------------------------------------------------------------------------
(* The declared type of the file (under SpecSave) *)

\* C26: the mimeType declared for the file (and sent with it to the AI
\* capability) equals the actual image encoding of its base64 payload, after
\* an upload of any image type and any number of editor saves.
C26_MimeTypeMatchesPayload ==
    (file # NULL /\ DecodeImage(file.previewUrl) # NULL) =>
      /\ Len(file.base64.str) = 1
      /\ file.mimeType = Cat(Str("image/"), Str(file.base64.str[1].b64.format))

====
